---- MODULE Spec2Model ----
(***************************************************************************)
(* Pipeline state machine and scheduling core of recruit_pro:              *)
(* DatabaseStorage (server/storage.ts) and InterviewsRepository            *)
(* (server/storage/repositories), both acting on the same tables           *)
(* candidates, interview_stages, interviews and notifications.             *)
(***************************************************************************)
EXTENDS Integers, Sequences, FiniteSets, Bags, TLC

\* ---------------------------------------------------------------- bounds
MaxCandidates == 1
MaxStageRows == 3
MaxChainLen == 2
MaxInterviews == 2
MaxNotifications == 3
MaxInterviewers == 1
MaxSlot == 2
MaxRequests == 4

\* ------------------------------------------------------ program constants
DefaultDuration == 30
MinutesPerDay == 1440
LastMinuteOfDay == 1439

\* SQL NULL / JS undefined for the nullable integer and timestamp columns
Null == -1
\* value of "new Date()" written into deletedAt
Now == 1

\* ------------------------------------------------------------ input sets
Impls == {"DatabaseStorage", "InterviewsRepository"}
Interviewers == 1..MaxInterviewers
Workspaces == {1}
\* scheduledAt values, minutes on a local clock whose day 1 starts at 1440:
\* 23:45 of day 0, then 00:00, 00:15, ... of day 1
SlotStep == DefaultDuration \div 2
BaseTime == MinutesPerDay - SlotStep
Times == {BaseTime + SlotStep * k : k \in 0..MaxSlot}
Durations == {15, 30}

VARIABLES candidates, stages, interviews, notifications, nextId, procs, last,
          binding, requests

vars == <<candidates, stages, interviews, notifications, nextId, procs, last,
          binding, requests>>

\* ------------------------------------------------------------ row shapes
NewCandidateRow(id, ws) ==
    [id |-> id, workspaceId |-> ws, status |-> "active", currentStageIndex |-> 0,
     rejectionStage |-> Null, rejectionReason |-> ""]

NewStageRow(id, candidateId, i, stageName, interviewerId, status) ==
    [id |-> id, candidateId |-> candidateId, stageIndex |-> i, stageName |-> stageName,
     interviewerId |-> interviewerId, status |-> status, scheduledAt |-> Null,
     completedAt |-> Null, comments |-> "", rating |-> Null, deletedAt |-> Null]

NewInterviewRow(id, stageId, candidateId, interviewerId, scheduledAt, duration) ==
    [id |-> id, stageId |-> stageId, candidateId |-> candidateId,
     interviewerId |-> interviewerId, scheduledAt |-> scheduledAt,
     duration |-> duration, status |-> "scheduled", outcome |-> "",
     notes |-> "", deletedAt |-> Null]

NotificationRow(userId, type, relatedEntityType, relatedEntityId) ==
    [userId |-> userId, type |-> type, relatedEntityType |-> relatedEntityType,
     relatedEntityId |-> relatedEntityId]

\* INSERT INTO notifications: the table is a bag of rows (ids left out)
Notify(table, row) == table (+) SetToBag({row})

\* { ...row, ...partial }: the fields of partial overwrite those of row
SetFields(row, partial) ==
    [f \in DOMAIN row |-> IF f \in DOMAIN partial THEN partial[f] ELSE row[f]]

\* UPDATE table SET partial WHERE id = id
UpdateWhereId(table, id, partial) ==
    {IF r.id = id THEN SetFields(r, partial) ELSE r : r \in table}

RECURSIVE SeqOfSet(_)
SeqOfSet(S) ==
    IF S = {} THEN <<>>
    ELSE LET m == CHOOSE x \in S : \A y \in S : x <= y
         IN <<m>> \o SeqOfSet(S \ {m})

\* all orders in which the rows of a set can come back from an unordered SELECT
Orderings(S) ==
    {q \in [1..Cardinality(S) -> S] : \A i, j \in 1..Cardinality(S) : i # j => q[i] # q[j]}

IdleProc == [pc |-> "idle"]
Procs == {1, 2}

Init ==
    /\ candidates = {}
    /\ stages = {}
    /\ interviews = {}
    /\ notifications = EmptyBag
    /\ nextId = [candidate |-> 1, stage |-> 1, interview |-> 1]
    /\ procs = [p \in Procs |-> IdleProc]
    /\ last = [op |-> "none"]
    \* the class the storage object binds its migrated methods to
    /\ binding \in Impls
    /\ requests = 0

\* ------------------------------------------------------- createCandidate
\* stage specs a caller submits: a named stage with an interviewer, one without
ChainSpecs == {[stageName |-> "HR", interviewerId |-> 1],
               [stageName |-> "Tech", interviewerId |-> Null]}

Chains(Specs) == UNION {[1..n -> Specs] : n \in 0..MaxChainLen}

\* status of the i-th (0-based) stage of a new candidate
InitialStageStatus(i) == IF i = 0 THEN "pending" ELSE "waiting"

createCandidate(ws, chain) ==
    /\ nextId.candidate <= MaxCandidates
    /\ nextId.stage + Len(chain) - 1 <= MaxStageRows
    /\ LET cid == nextId.candidate
       IN /\ candidates' = candidates \cup {NewCandidateRow(cid, ws)}
          /\ stages' = stages \cup
                {NewStageRow(nextId.stage + i - 1, cid, i - 1, chain[i].stageName,
                             chain[i].interviewerId, InitialStageStatus(i - 1))
                 : i \in 1..Len(chain)}
          /\ nextId' = [nextId EXCEPT !.candidate = cid + 1,
                                      !.stage = nextId.stage + Len(chain)]
          /\ last' = [op |-> "createCandidate", candidateId |-> cid, result |-> "ok"]
    /\ UNCHANGED <<interviews, notifications, procs>>

\* ---------------------------------------------------- updateInterviewStage
\* partial stage records handed to updateInterviewStage
CompletedTime == 2 * MinutesPerDay
StageUpdates ==
    {[status |-> "passed", comments |-> "ok", completedAt |-> CompletedTime, rating |-> 4],
     [status |-> "failed", comments |-> "weak fit", completedAt |-> CompletedTime, rating |-> 2],
     [status |-> "failed", comments |-> "", completedAt |-> CompletedTime, rating |-> 2]}

GenericRejectionReason == "Failed interview stage"

\* the lookup without the join on the candidate's workspace
getInterviewStage_IgnoresWorkspace(id, ws) ==
    {s \in stages : s.id = id}

\* SELECT ... FROM interview_stages [LEFT JOIN candidates] WHERE id = id [AND workspaceId = ws]
getInterviewStage(id, ws) ==
    {s \in stages : /\ s.id = id
                    /\ ws # Null => \E c \in candidates :
                                       c.id = s.candidateId /\ c.workspaceId = ws}

\* the value the failed branch writes into candidates.rejection_stage
\* (DatabaseStorage: the number stageIndex; InterviewsRepository: the text stageName)
RejectionStageValue(impl, updatedStage) ==
    IF impl = "DatabaseStorage"
    THEN [type |-> "integer", value |-> updatedStage.stageIndex]
    ELSE [type |-> "text", value |-> updatedStage.stageName]

\* rejection_stage is an INTEGER column: a text value that is no number (every
\* name of StageNames) makes the UPDATE of the candidate throw
IsIntegerValue(v) == v.type = "integer"

\* stage.comments || 'Failed interview stage'
RejectionReasonValue(partial) ==
    IF "comments" \in DOMAIN partial /\ partial.comments # ""
    THEN partial.comments ELSE GenericRejectionReason

\* the rows the "next stage" query can return (no filter on deletedAt)
NextStageRows(table, candidateId, nextStageIndex) ==
    {s \in table : s.candidateId = candidateId /\ s.stageIndex = nextStageIndex}

\* the statements of updateInterviewStage on interview_stages, candidates and
\* notifications
StageTransition(impl, id, partial, ws) ==
    /\ BagCardinality(notifications) < MaxNotifications
    /\ LET accessDenied == /\ impl = "DatabaseStorage"
                           /\ ws # Null
                           /\ getInterviewStage(id, ws) = {}
           stages1 == UpdateWhereId(stages, id, partial)
           status == IF "status" \in DOMAIN partial THEN partial.status ELSE ""
           descr == [op |-> "updateInterviewStage", impl |-> impl, id |-> id,
                     ws |-> ws, status |-> status,
                     comments |-> IF "comments" \in DOMAIN partial
                                  THEN partial.comments ELSE ""]
       IN IF accessDenied \/ ~(\E s \in stages : s.id = id)
          THEN /\ last' = descr @@ [result |-> "not_found"]
               /\ UNCHANGED <<candidates, stages, notifications>>
          ELSE LET updatedStage == CHOOSE s \in stages1 : s.id = id
                   cid == updatedStage.candidateId
                   nextStageIndex == updatedStage.stageIndex + 1
                   nextRows == NextStageRows(stages1, cid, nextStageIndex)
               IN /\ stages' = stages1
                  /\ IF status = "passed" /\ (\E c \in candidates : c.id = cid)
                     THEN IF nextRows # {}
                          THEN /\ candidates' = UpdateWhereId(candidates, cid,
                                      [currentStageIndex |-> nextStageIndex])
                               /\ \E nextStage \in nextRows :
                                     notifications' =
                                        IF nextStage.interviewerId # Null
                                        THEN Notify(notifications,
                                               NotificationRow(nextStage.interviewerId,
                                                 "interview_assigned", "interview_stage",
                                                 nextStage.id))
                                        ELSE notifications
                               /\ last' = descr @@ [result |-> "ok"]
                          ELSE /\ candidates' = UpdateWhereId(candidates, cid,
                                      [currentStageIndex |-> nextStageIndex,
                                       status |-> "documentation"])
                               /\ last' = descr @@ [result |-> "ok"]
                               /\ UNCHANGED notifications
                     ELSE IF status = "failed"
                          THEN IF IsIntegerValue(RejectionStageValue(impl, updatedStage))
                               THEN /\ candidates' = UpdateWhereId(candidates, cid,
                                          [status |-> "rejected",
                                           rejectionStage |->
                                              RejectionStageValue(impl, updatedStage).value,
                                           rejectionReason |-> RejectionReasonValue(partial)])
                                    /\ last' = descr @@ [result |-> "ok"]
                                    /\ UNCHANGED notifications
                               ELSE /\ last' = descr @@ [result |-> "db_error"]
                                    /\ UNCHANGED <<candidates, notifications>>
                          ELSE /\ last' = descr @@ [result |-> "ok"]
                               /\ UNCHANGED <<candidates, notifications>>

updateInterviewStage(impl, id, partial, ws) ==
    /\ StageTransition(impl, id, partial, ws)
    /\ UNCHANGED <<interviews, nextId, procs>>

\* ----------------------------------------------------- syncInterviewStages
\* entries of a resubmitted chain: an id (or none) and the stage's new metadata
SyncSpecs == {[stageName |-> "Tech", interviewerId |-> Null]}
SyncEntries(ids) ==
    {[id |-> i] @@ spec : i \in ids \cup {Null}, spec \in SyncSpecs}

\* stage.status || 'waiting'
EntryStatus(entry) ==
    IF "status" \in DOMAIN entry /\ entry.status # "" THEN entry.status ELSE "waiting"

\* existingStages: every row of the candidate, tombstoned or not
ExistingStages(table, candidateId) == {s \in table : s.candidateId = candidateId}

\* newStageIds: stages.filter(s => s.id).map(s => s.id)
NewStageIds(list) == {list[i].id : i \in {j \in 1..Len(list) : list[j].id # Null}}

StagesToDelete(table, candidateId, list) ==
    {s.id : s \in {x \in ExistingStages(table, candidateId) : x.id \notin NewStageIds(list)}}

RECURSIVE DeleteStatements(_)
DeleteStatements(order) ==
    IF order = <<>> THEN <<>>
    ELSE <<[kind |-> "removeInterviews", stageId |-> Head(order)],
           [kind |-> "removeStage", stageId |-> Head(order)]>>
         \o DeleteStatements(Tail(order))

UpsertStatements(table, candidateId, list) ==
    LET existingStageIds == {s.id : s \in ExistingStages(table, candidateId)}
    IN [i \in 1..Len(list) |->
          IF list[i].id # Null /\ list[i].id \in existingStageIds
          THEN [kind |-> "update", stageIndex |-> i - 1, entry |-> list[i]]
          ELSE [kind |-> "insert", stageIndex |-> i - 1, entry |-> list[i]]]

\* the database statements of one syncInterviewStages call, in program order
SyncStatements(table, candidateId, list, order) ==
    DeleteStatements(order) \o UpsertStatements(table, candidateId, list)

\* DatabaseStorage deletes the rows, InterviewsRepository sets deletedAt
RemoveInterviewsOfStage(impl, ivs, stageId) ==
    IF impl = "DatabaseStorage"
    THEN {iv \in ivs : iv.stageId # stageId}
    ELSE {IF iv.stageId = stageId THEN [iv EXCEPT !.deletedAt = Now] ELSE iv : iv \in ivs}

RemoveStage(impl, table, stageId) ==
    IF impl = "DatabaseStorage"
    THEN {s \in table : s.id # stageId}
    ELSE UpdateWhereId(table, stageId, [deletedAt |-> Now])

\* ApplySyncStatement with an update that rewrites the row the way an insert
\* fills it, so that a resubmitted stage falls back to 'waiting'
ApplySyncStatement_ResetsProgress(impl, candidateId, db, st) ==
    IF st.kind = "removeInterviews"
    THEN [db EXCEPT !.interviews = RemoveInterviewsOfStage(impl, db.interviews, st.stageId)]
    ELSE IF st.kind = "removeStage"
    THEN [db EXCEPT !.stages = RemoveStage(impl, db.stages, st.stageId),
                    !.interviews = IF impl = "DatabaseStorage"
                                   THEN {iv \in db.interviews : iv.stageId # st.stageId}
                                   ELSE db.interviews]
    ELSE IF st.kind = "update"
    THEN [db EXCEPT !.stages = UpdateWhereId(db.stages, st.entry.id,
                                   [stageIndex |-> st.stageIndex,
                                    stageName |-> st.entry.stageName,
                                    interviewerId |-> st.entry.interviewerId,
                                    status |-> EntryStatus(st.entry)])]
    ELSE [db EXCEPT !.stages = db.stages \cup
                                   {NewStageRow(db.nextStage, candidateId, st.stageIndex,
                                                st.entry.stageName, st.entry.interviewerId,
                                                EntryStatus(st.entry))},
                    !.nextStage = db.nextStage + 1]

\* db = [stages, interviews, nextStage]
ApplySyncStatement(impl, candidateId, db, st) ==
    IF st.kind = "removeInterviews"
    THEN [db EXCEPT !.interviews = RemoveInterviewsOfStage(impl, db.interviews, st.stageId)]
    ELSE IF st.kind = "removeStage"
    THEN [db EXCEPT !.stages = RemoveStage(impl, db.stages, st.stageId),
                    \* ON DELETE CASCADE of interviews.stage_id
                    !.interviews = IF impl = "DatabaseStorage"
                                   THEN {iv \in db.interviews : iv.stageId # st.stageId}
                                   ELSE db.interviews]
    ELSE IF st.kind = "update"
    THEN [db EXCEPT !.stages = UpdateWhereId(db.stages, st.entry.id,
                                   [stageIndex |-> st.stageIndex,
                                    stageName |-> st.entry.stageName,
                                    interviewerId |-> st.entry.interviewerId])]
    ELSE [db EXCEPT !.stages = db.stages \cup
                                   {NewStageRow(db.nextStage, candidateId, st.stageIndex,
                                                st.entry.stageName, st.entry.interviewerId,
                                                EntryStatus(st.entry))},
                    !.nextStage = db.nextStage + 1]

RECURSIVE ApplySyncStatements(_, _, _, _, _)
\* the first n statements of sts applied to db
ApplySyncStatements(impl, candidateId, db, sts, n) ==
    IF n = 0 THEN db
    ELSE ApplySyncStatement(impl, candidateId,
                            ApplySyncStatements(impl, candidateId, db, sts, n - 1), sts[n])

\* number of statements a call issues when none fails
StatementCount(table, candidateId, list) ==
    2 * Cardinality(StagesToDelete(table, candidateId, list)) + Len(list)

InsertCount(table, candidateId, list) ==
    Cardinality({i \in 1..Len(list) :
                    UpsertStatements(table, candidateId, list)[i].kind = "insert"})

\* the orders in which stagesToDelete can be walked; when every statement runs
\* the outcome does not depend on the order, and one order stands for all
DeleteOrders(toDelete, failAt) ==
    IF failAt = Null THEN {SeqOfSet(toDelete)} ELSE Orderings(toDelete)

\* failAt = Null: every statement succeeds; failAt = k: the k-th statement throws.
\* DatabaseStorage runs the statements one by one on the connection pool,
\* InterviewsRepository inside db.transaction (rolled back when one throws).
syncInterviewStages(impl, candidateId, list, failAt) ==
    /\ \E c \in candidates : c.id = candidateId
    /\ failAt # Null => failAt \in 1..StatementCount(stages, candidateId, list)
    /\ nextId.stage + InsertCount(stages, candidateId, list) - 1 <= MaxStageRows
    /\ \E order \in DeleteOrders(StagesToDelete(stages, candidateId, list), failAt) :
         LET sts == SyncStatements(stages, candidateId, list, order)
             db0 == [stages |-> stages, interviews |-> interviews, nextStage |-> nextId.stage]
             done == IF failAt = Null THEN Len(sts) ELSE failAt - 1
             db1 == ApplySyncStatements(impl, candidateId, db0, sts, done)
             descr == [op |-> "syncInterviewStages", impl |-> impl,
                       candidateId |-> candidateId, list |-> list]
         IN /\ nextId' = [nextId EXCEPT !.stage = db1.nextStage]
            /\ IF failAt = Null
               THEN /\ stages' = db1.stages
                    /\ interviews' = db1.interviews
                    /\ last' = descr @@ [result |-> "ok"]
               ELSE /\ last' = descr @@ [result |-> "db_error"]
                    /\ IF impl = "DatabaseStorage"
                       THEN stages' = db1.stages /\ interviews' = db1.interviews
                       ELSE UNCHANGED <<stages, interviews>>
    /\ UNCHANGED <<candidates, notifications, procs>>

\* -------------------------------------------------------- scheduleInterview
\* new Date(y, m, d) and new Date(y, m, d, 23, 59, 59) of scheduledAt
DayStart(t) == (t \div MinutesPerDay) * MinutesPerDay
DayEnd(t) == DayStart(t) + LastMinuteOfDay

\* the conflict query: the interviewer's 'scheduled' interviews of that day
\* (only InterviewsRepository adds isNull(deletedAt))
ExistingInterviews(impl, ivs, interviewerId, scheduledAt) ==
    {iv \in ivs : /\ iv.interviewerId = interviewerId
                  /\ iv.status = "scheduled"
                  /\ impl = "InterviewsRepository" => iv.deletedAt = Null
                  /\ iv.scheduledAt >= DayStart(scheduledAt)
                  /\ iv.scheduledAt <= DayEnd(scheduledAt)}

\* interview.duration ?? 30
EffectiveDuration(iv) == IF iv.duration = Null THEN DefaultDuration ELSE iv.duration

EndOf(iv) == iv.scheduledAt + EffectiveDuration(iv)

\* the test on closed intervals
Overlaps_Closed(startTime, endTime, iv) ==
    startTime <= EndOf(iv) /\ endTime >= iv.scheduledAt

\* startTime < existingEnd && endTime > existingStart
Overlaps(startTime, endTime, iv) == startTime < EndOf(iv) /\ endTime > iv.scheduledAt

Conflicts(existing, scheduledAt, duration) ==
    {iv \in existing : Overlaps(scheduledAt, scheduledAt + duration, iv)}

\* SELECT candidateId, stageName FROM interview_stages WHERE id = stageId LIMIT 1
StageLookup(table, stageId) == {s \in table : s.id = stageId}

\* the stage update that leaves the status alone
ScheduledStageFields_KeepsStatus(scheduledAt) == [scheduledAt |-> scheduledAt]

ScheduledStageFields(scheduledAt) == [status |-> "in_progress", scheduledAt |-> scheduledAt]

\* the call with the insert moved in front of the conflict test
scheduleInterview_InsertsBeforeCheck(impl, stageId, interviewerId, scheduledAt, duration) ==
    /\ nextId.interview <= MaxInterviews
    /\ BagCardinality(notifications) < MaxNotifications
    /\ LET existing == ExistingInterviews(impl, interviews, interviewerId, scheduledAt)
           conflicts == Conflicts(existing, scheduledAt, duration)
           descr == [op |-> "scheduleInterview", impl |-> impl, stageId |-> stageId,
                     interviewerId |-> interviewerId, scheduledAt |-> scheduledAt,
                     duration |-> duration]
       IN IF conflicts # {}
          THEN /\ \E c \in conflicts :
                     last' = descr @@ [result |-> "conflict", conflictTime |-> c.scheduledAt]
               /\ interviews' = interviews \cup
                     {NewInterviewRow(nextId.interview, stageId, Null, interviewerId,
                                      scheduledAt, duration)}
               /\ nextId' = [nextId EXCEPT !.interview = nextId.interview + 1]
               /\ UNCHANGED <<stages, notifications>>
          ELSE IF StageLookup(stages, stageId) = {}
          THEN /\ last' = descr @@ [result |-> "stage_not_found"]
               /\ UNCHANGED <<stages, interviews, notifications, nextId>>
          ELSE LET stage == CHOOSE s \in StageLookup(stages, stageId) : TRUE
                   iid == nextId.interview
               IN /\ interviews' = interviews \cup
                        {NewInterviewRow(iid, stageId, stage.candidateId, interviewerId,
                                         scheduledAt, duration)}
                  /\ stages' = UpdateWhereId(stages, stageId, ScheduledStageFields(scheduledAt))
                  /\ notifications' = Notify(notifications,
                        NotificationRow(interviewerId, "interview_scheduled", "interview", iid))
                  /\ nextId' = [nextId EXCEPT !.interview = iid + 1]
                  /\ last' = descr @@ [result |-> "ok", interviewId |-> iid]
    /\ UNCHANGED <<candidates, procs>>

\* one call running alone: nothing else touches the tables between its statements
scheduleInterview(impl, stageId, interviewerId, scheduledAt, duration) ==
    /\ nextId.interview <= MaxInterviews
    /\ BagCardinality(notifications) < MaxNotifications
    /\ LET existing == ExistingInterviews(impl, interviews, interviewerId, scheduledAt)
           conflicts == Conflicts(existing, scheduledAt, duration)
           descr == [op |-> "scheduleInterview", impl |-> impl, stageId |-> stageId,
                     interviewerId |-> interviewerId, scheduledAt |-> scheduledAt,
                     duration |-> duration]
       IN IF conflicts # {}
          THEN /\ \E c \in conflicts :
                     last' = descr @@ [result |-> "conflict", conflictTime |-> c.scheduledAt]
               /\ UNCHANGED <<stages, interviews, notifications, nextId>>
          ELSE IF StageLookup(stages, stageId) = {}
          THEN /\ last' = descr @@ [result |-> "stage_not_found"]
               /\ UNCHANGED <<stages, interviews, notifications, nextId>>
          ELSE LET stage == CHOOSE s \in StageLookup(stages, stageId) : TRUE
                   iid == nextId.interview
               IN /\ interviews' = interviews \cup
                        {NewInterviewRow(iid, stageId, stage.candidateId, interviewerId,
                                         scheduledAt, duration)}
                  /\ stages' = UpdateWhereId(stages, stageId, ScheduledStageFields(scheduledAt))
                  /\ notifications' = Notify(notifications,
                        NotificationRow(interviewerId, "interview_scheduled", "interview", iid))
                  /\ nextId' = [nextId EXCEPT !.interview = iid + 1]
                  /\ last' = descr @@ [result |-> "ok", interviewId |-> iid]
    /\ UNCHANGED <<candidates, procs>>

\* ------------------------------------- scheduleInterview, statement by statement
\* Each await of scheduleInterview is a point where another call can run.
\* DatabaseStorage issues its statements in auto-commit mode; InterviewsRepository
\* runs them in one transaction whose writes become visible at commit and whose
\* conflict query is SELECT ... FOR UPDATE.
InTransaction(pr) == pr.pc \in {"lookup", "write"} /\ pr.impl = "InterviewsRepository"

\* ids of the interview rows locked by the transactions of the other calls
LockedByOthers(p) ==
    UNION {{iv.id : iv \in procs[q].existing} : q \in {r \in Procs \ {p} : InTransaction(procs[r])}}

BeginSchedule(p, stageId, interviewerId, scheduledAt, duration) ==
    /\ procs[p].pc = "idle"
    /\ procs' = [procs EXCEPT ![p] =
          [pc |-> "select", impl |-> binding, stageId |-> stageId,
           interviewerId |-> interviewerId, scheduledAt |-> scheduledAt,
           duration |-> duration, existing |-> {}, candidateId |-> Null,
           interviewId |-> Null, result |-> "running"]]
    /\ last' = [op |-> "beginSchedule", proc |-> p]
    /\ UNCHANGED <<candidates, stages, interviews, notifications, nextId>>

\* the conflict query and the conflict test on its rows
SelectExisting(p) ==
    LET pr == procs[p]
        existing == ExistingInterviews(pr.impl, interviews, pr.interviewerId, pr.scheduledAt)
    IN /\ pr.pc = "select"
       \* FOR UPDATE waits for the rows another transaction has locked
       /\ pr.impl = "InterviewsRepository" =>
             {iv.id : iv \in existing} \cap LockedByOthers(p) = {}
       /\ procs' = [procs EXCEPT ![p] =
             IF Conflicts(existing, pr.scheduledAt, pr.duration) # {}
             THEN [pr EXCEPT !.pc = "done", !.result = "conflict"]
             ELSE [pr EXCEPT !.pc = "lookup", !.existing = existing]]
       /\ last' = [op |-> "selectExisting", proc |-> p]
       /\ UNCHANGED <<candidates, stages, interviews, notifications, nextId, binding, requests>>

LookupStage(p) ==
    LET pr == procs[p]
        found == StageLookup(stages, pr.stageId)
    IN /\ pr.pc = "lookup"
       /\ procs' = [procs EXCEPT ![p] =
             IF found = {}
             THEN [pr EXCEPT !.pc = "done", !.result = "stage_not_found", !.existing = {}]
             ELSE [pr EXCEPT !.pc = "write",
                             !.candidateId = (CHOOSE s \in found : TRUE).candidateId]]
       /\ last' = [op |-> "lookupStage", proc |-> p]
       /\ UNCHANGED <<candidates, stages, interviews, notifications, nextId, binding, requests>>

\* DatabaseStorage: INSERT INTO interviews, visible at once
InsertInterview(p) ==
    LET pr == procs[p]
    IN /\ pr.pc = "write"
       /\ pr.impl = "DatabaseStorage"
       /\ interviews' = interviews \cup
             {NewInterviewRow(nextId.interview, pr.stageId, pr.candidateId,
                              pr.interviewerId, pr.scheduledAt, pr.duration)}
       /\ nextId' = [nextId EXCEPT !.interview = nextId.interview + 1]
       /\ procs' = [procs EXCEPT ![p] = [pr EXCEPT !.pc = "updateStage",
                                                   !.interviewId = nextId.interview]]
       /\ last' = [op |-> "insertInterview", proc |-> p]
       /\ UNCHANGED <<candidates, stages, notifications, binding, requests>>

\* DatabaseStorage: UPDATE interview_stages
UpdateStageScheduled(p) ==
    LET pr == procs[p]
    IN /\ pr.pc = "updateStage"
       /\ stages' = UpdateWhereId(stages, pr.stageId, ScheduledStageFields(pr.scheduledAt))
       /\ procs' = [procs EXCEPT ![p] = [pr EXCEPT !.pc = "notify"]]
       /\ last' = [op |-> "updateStageScheduled", proc |-> p]
       /\ UNCHANGED <<candidates, interviews, notifications, nextId, binding, requests>>

\* DatabaseStorage: INSERT INTO notifications, then return interview
NotifyInterviewer(p) ==
    LET pr == procs[p]
    IN /\ pr.pc = "notify"
       /\ notifications' = Notify(notifications,
             NotificationRow(pr.interviewerId, "interview_scheduled", "interview",
                             pr.interviewId))
       /\ procs' = [procs EXCEPT ![p] = [pr EXCEPT !.pc = "done", !.result = "ok"]]
       /\ last' = [op |-> "notifyInterviewer", proc |-> p]
       /\ UNCHANGED <<candidates, stages, interviews, nextId, binding, requests>>

\* InterviewsRepository: insert, stage update and notification of the
\* transaction take effect together when it commits; the row locks are released
CommitSchedule(p) ==
    LET pr == procs[p]
    IN /\ pr.pc = "write"
       /\ pr.impl = "InterviewsRepository"
       /\ interviews' = interviews \cup
             {NewInterviewRow(nextId.interview, pr.stageId, pr.candidateId,
                              pr.interviewerId, pr.scheduledAt, pr.duration)}
       /\ nextId' = [nextId EXCEPT !.interview = nextId.interview + 1]
       /\ stages' = UpdateWhereId(stages, pr.stageId, ScheduledStageFields(pr.scheduledAt))
       /\ notifications' = Notify(notifications,
             NotificationRow(pr.interviewerId, "interview_scheduled", "interview",
                             nextId.interview))
       /\ procs' = [procs EXCEPT ![p] = [pr EXCEPT !.pc = "done", !.result = "ok",
                                                   !.interviewId = nextId.interview,
                                                   !.existing = {}]]
       /\ last' = [op |-> "commitSchedule", proc |-> p]
       /\ UNCHANGED <<candidates, binding, requests>>

\* ------------------------------------- rescheduleInterview, updateInterview
rescheduleInterview(interviewId, newDateTime) ==
    /\ BagCardinality(notifications) < MaxNotifications
    /\ interviews' = UpdateWhereId(interviews, interviewId, [scheduledAt |-> newDateTime])
    /\ IF \E iv \in interviews : iv.id = interviewId
       THEN LET interview == CHOOSE iv \in interviews : iv.id = interviewId
            IN notifications' = Notify(notifications,
                  NotificationRow(interview.interviewerId, "interview_rescheduled",
                                  "interview", interviewId))
       ELSE UNCHANGED notifications
    /\ last' = [op |-> "rescheduleInterview", interviewId |-> interviewId,
                newDateTime |-> newDateTime,
                result |-> IF \E iv \in interviews : iv.id = interviewId
                           THEN "ok" ELSE "undefined"]
    /\ UNCHANGED <<candidates, stages, nextId, procs>>

\* request bodies of PUT /api/interviews/:id
InterviewUpdates ==
    {[scheduledAt |-> t] : t \in Times} \cup
    {[status |-> "cancelled"], [duration |-> Null]}

updateInterview(id, partial) ==
    /\ interviews' = UpdateWhereId(interviews, id, partial)
    /\ last' = [op |-> "updateInterview", interviewId |-> id, partial |-> partial,
                result |-> IF \E iv \in interviews : iv.id = id THEN "ok" ELSE "undefined"]
    /\ UNCHANGED <<candidates, stages, notifications, nextId, procs>>

\* recordInterviewOutcome
updateInterviewOutcome(interviewId, outcome, notes) ==
    /\ interviews' = UpdateWhereId(interviews, interviewId,
          [outcome |-> outcome, notes |-> notes, status |-> "completed"])
    /\ last' = [op |-> "updateInterviewOutcome", interviewId |-> interviewId,
                outcome |-> outcome,
                result |-> IF \E iv \in interviews : iv.id = interviewId
                           THEN "ok" ELSE "undefined"]
    /\ UNCHANGED <<candidates, stages, notifications, nextId, procs>>

\* ------------------------------------------------- POST /api/interviews
GenericScheduleError == "Failed to schedule interview"

\* what the route answers for the outcome l of storage.scheduleInterview:
\* res.json(interview), or the catch block's status 500 with its fixed text
ScheduleResponse(l) ==
    IF l.result = "ok"
    THEN [status |-> 200, interviewId |-> l.interviewId]
    ELSE [status |-> 500, error |-> GenericScheduleError]

\* ------------------------------------ statements that fail part-way through
\* the statements of scheduleInterview that follow the insert of the interview
ScheduleFailurePoints == {"updateStage", "notify"}

\* scheduleInterview running alone, its statement failAt throwing.
\* DatabaseStorage has committed every statement before it; the transaction of
\* InterviewsRepository is rolled back (the id drawn from the sequence is spent).
failingScheduleInterview(impl, stageId, interviewerId, scheduledAt, duration, failAt) ==
    /\ nextId.interview <= MaxInterviews
    /\ Conflicts(ExistingInterviews(impl, interviews, interviewerId, scheduledAt),
                 scheduledAt, duration) = {}
    /\ StageLookup(stages, stageId) # {}
    /\ LET stage == CHOOSE s \in StageLookup(stages, stageId) : TRUE
           iid == nextId.interview
       IN /\ nextId' = [nextId EXCEPT !.interview = iid + 1]
          /\ last' = [op |-> "scheduleInterview", impl |-> impl, stageId |-> stageId,
                      interviewerId |-> interviewerId, scheduledAt |-> scheduledAt,
                      duration |-> duration, result |-> "db_error",
                      failAt |-> failAt, interviewId |-> iid]
          /\ IF impl = "DatabaseStorage"
             THEN /\ interviews' = interviews \cup
                        {NewInterviewRow(iid, stageId, stage.candidateId, interviewerId,
                                         scheduledAt, duration)}
                  /\ stages' = IF failAt = "notify"
                               THEN UpdateWhereId(stages, stageId,
                                                  ScheduledStageFields(scheduledAt))
                               ELSE stages
             ELSE UNCHANGED <<interviews, stages>>
    /\ UNCHANGED <<candidates, notifications, procs>>

\* updateInterviewStage with status passed whose insert into notifications
\* throws: the stage and the candidate are already written, outside any
\* transaction, and the error goes to the caller
updateInterviewStageNotifyFails(impl, id, partial, ws) ==
    /\ "status" \in DOMAIN partial /\ partial.status = "passed"
    /\ ~(impl = "DatabaseStorage" /\ ws # Null /\ getInterviewStage(id, ws) = {})
    /\ \E s \in stages : s.id = id
    /\ LET stages1 == UpdateWhereId(stages, id, partial)
           updatedStage == CHOOSE s \in stages1 : s.id = id
           cid == updatedStage.candidateId
           nextStageIndex == updatedStage.stageIndex + 1
       IN /\ \E c \in candidates : c.id = cid
          /\ \E nextStage \in NextStageRows(stages1, cid, nextStageIndex) :
                nextStage.interviewerId # Null
          /\ stages' = stages1
          /\ candidates' = UpdateWhereId(candidates, cid,
                                         [currentStageIndex |-> nextStageIndex])
          /\ last' = [op |-> "updateInterviewStage", impl |-> impl, id |-> id,
                      ws |-> ws, status |-> partial.status,
                      comments |-> partial.comments,
                      result |-> "db_error", failAt |-> "notify"]
    /\ UNCHANGED <<interviews, notifications, nextId, procs>>

\* ------------------------------------------ PUT /api/interview-stages/:id
\* comment texts with nothing but whitespace in them
BlankComments == {"", " "}

\* !updates.comments || updates.comments.trim() === ''
IsBlank(updates) == "comments" \notin DOMAIN updates \/ updates.comments \in BlankComments

\* updates.status === 'passed' || updates.status === 'failed'
CompletesStage(updates) ==
    "status" \in DOMAIN updates /\ updates.status \in {"passed", "failed"}

\* SELECT * FROM interviews WHERE stage_id = stageId
getInterviewsByStage(ivs, stageId) == {iv \in ivs : iv.stageId = stageId}

\* the related interview records take the outcome of the stage
CompleteRelatedInterviews(ivs, stageId, updates) ==
    {IF iv \in getInterviewsByStage(ivs, stageId)
     THEN SetFields(iv, [outcome |-> updates.status, status |-> "completed",
                         notes |-> updates.comments])
     ELSE iv : iv \in ivs}

\* request bodies of the route
StageRouteBodies ==
    StageUpdates \cup
    {[status |-> "passed", comments |-> " ", completedAt |-> CompletedTime, rating |-> 4]}

putInterviewStage(impl, id, updates, ws) ==
    IF CompletesStage(updates) /\ IsBlank(updates)
    THEN /\ last' = [op |-> "putInterviewStage", id |-> id, ws |-> ws,
                     status |-> updates.status,
                     comments |-> IF "comments" \in DOMAIN updates
                                  THEN updates.comments ELSE "",
                     result |-> "validation_error"]
         /\ UNCHANGED <<candidates, stages, interviews, notifications, nextId, procs>>
    ELSE /\ StageTransition(impl, id, updates, ws)
         /\ interviews' = IF last'.result = "ok" /\ CompletesStage(updates)
                          THEN CompleteRelatedInterviews(interviews, id, updates)
                          ELSE interviews
         /\ UNCHANGED <<nextId, procs>>

\* ------------------------------------------------ candidate status routes
\* SELECT * FROM candidates WHERE id = id [AND workspace_id = ws]
getCandidate(id, ws) ==
    {c \in candidates : c.id = id /\ (ws # Null => c.workspaceId = ws)}

\* UPDATE candidates SET partial WHERE id = id
updateCandidate(id, partial) == UpdateWhereId(candidates, id, partial)

\* every stage row of the candidate, tombstoned or not
getInterviewStagesByCandidate(candidateId) ==
    {s \in stages : s.candidateId = candidateId}

\* the outcome of a candidate route: its response and the candidates table
CandidateRoute(op, candidateId, result, table) ==
    /\ candidates' = table
    /\ last' = [op |-> op, candidateId |-> candidateId, result |-> result]
    /\ UNCHANGED <<stages, interviews, notifications, nextId, procs>>

\* PUT /api/candidates/:id/hire
hire(candidateId, ws) ==
    IF getCandidate(candidateId, ws) = {}
    THEN CandidateRoute("hire", candidateId, "not_found", candidates)
    ELSE CandidateRoute("hire", candidateId, "ok",
                        updateCandidate(candidateId, [status |-> "hired"]))

\* PUT /api/candidates/:id/dismiss
dismiss(candidateId, ws) ==
    IF getCandidate(candidateId, ws) = {}
    THEN CandidateRoute("dismiss", candidateId, "not_found", candidates)
    ELSE IF \E c \in getCandidate(candidateId, ws) : c.status # "hired"
    THEN CandidateRoute("dismiss", candidateId, "bad_request", candidates)
    ELSE CandidateRoute("dismiss", candidateId, "ok",
                        updateCandidate(candidateId, [status |-> "dismissed"]))

\* PUT /api/candidates/:id/move-to-documentation
moveToDocumentation(candidateId, ws) ==
    IF getCandidate(candidateId, ws) = {}
    THEN CandidateRoute("moveToDocumentation", candidateId, "not_found", candidates)
    ELSE IF \/ \E c \in getCandidate(candidateId, ws) : c.status # "active"
            \/ getInterviewStagesByCandidate(candidateId) = {}
            \/ \E s \in getInterviewStagesByCandidate(candidateId) : s.status # "passed"
    THEN CandidateRoute("moveToDocumentation", candidateId, "bad_request", candidates)
    ELSE CandidateRoute("moveToDocumentation", candidateId, "ok",
                        updateCandidate(candidateId, [status |-> "documentation"]))

\* PUT /api/documentation/candidates/:id/complete
completeDocumentation(id, ws) ==
    IF getCandidate(id, ws) = {}
    THEN CandidateRoute("completeDocumentation", id, "not_found", candidates)
    ELSE IF \E c \in getCandidate(id, ws) : c.status # "documentation"
    THEN CandidateRoute("completeDocumentation", id, "bad_request", candidates)
    ELSE CandidateRoute("completeDocumentation", id, "ok",
                        updateCandidate(id, [status |-> "hired"]))

\* form fields of PUT /api/candidates/:id that reach the status columns
CandidateEdits ==
    {[status |-> "active"],
     [status |-> "rejected", rejectionReason |-> "no show", rejectionStage |-> 0],
     [rejectionReason |-> "no show"]}

\* PUT /api/candidates/:id without a stage chain in the body
editCandidate(id, ws, updates) ==
    IF getCandidate(id, ws) = {}
    THEN CandidateRoute("editCandidate", id, "not_found", candidates)
    ELSE CandidateRoute("editCandidate", id, "ok", updateCandidate(id, updates))

StageIdSpace == 1..MaxStageRows
CandidateIdSpace == 1..MaxCandidates
InterviewIdSpace == 1..MaxInterviews

\* ------------------------------------------------------------- the requests
\* one more request is served by the request layer
Serve ==
    /\ requests < MaxRequests
    /\ requests' = requests + 1
    /\ UNCHANGED binding

CreateCandidateRequest ==
    /\ Serve
    /\ \E ws \in Workspaces, chain \in Chains(ChainSpecs) : createCandidate(ws, chain)

StageOutcomeRequest ==
    /\ Serve
    /\ \E id \in StageIdSpace, partial \in StageUpdates :
          updateInterviewStage(binding, id, partial, Null)

SyncRequest ==
    /\ Serve
    /\ \E c \in CandidateIdSpace, list \in Chains(SyncEntries(StageIdSpace)) :
          syncInterviewStages(binding, c, list, Null)

FailingSyncRequest ==
    /\ Serve
    /\ \E c \in CandidateIdSpace, list \in Chains(SyncEntries(StageIdSpace)) :
          \E failAt \in 1..StatementCount(stages, c, list) :
              syncInterviewStages(binding, c, list, failAt)

\* a first interview booked for a stage, at the first slot
BookRequest ==
    /\ Serve
    /\ \E s \in StageIdSpace :
          scheduleInterview(binding, s, 1, BaseTime, DefaultDuration)

ScheduleRequest ==
    /\ Serve
    /\ \E s \in StageIdSpace, u \in Interviewers, t \in Times, d \in Durations :
          scheduleInterview(binding, s, u, t, d)

RescheduleRequest ==
    /\ Serve
    /\ \E i \in InterviewIdSpace, t \in Times : rescheduleInterview(i, t)

UpdateInterviewRequest ==
    /\ Serve
    /\ \E i \in InterviewIdSpace, partial \in InterviewUpdates : updateInterview(i, partial)

InterviewOutcomeRequest ==
    /\ Serve
    /\ \E i \in InterviewIdSpace, outcome \in {"passed", "failed"} :
          updateInterviewOutcome(i, outcome, "")

\* the stage transition engine on chains that are created and resynced
NextPipeline ==
    \/ CreateCandidateRequest
    \/ StageOutcomeRequest
    \/ SyncRequest

SpecPipeline == Init /\ [][NextPipeline]_vars

\* chains that are only created and resynced
NextChain ==
    \/ CreateCandidateRequest
    \/ SyncRequest

SpecChain == Init /\ [][NextChain]_vars

\* chain resync on stages that are booked and completed
NextSync ==
    \/ CreateCandidateRequest
    \/ BookRequest
    \/ StageOutcomeRequest
    \/ SyncRequest

SpecSync == Init /\ [][NextSync]_vars

\* chain resync whose statements can fail
NextSyncFailure ==
    \/ CreateCandidateRequest
    \/ BookRequest
    \/ SyncRequest
    \/ FailingSyncRequest

SpecSyncFailure == Init /\ [][NextSyncFailure]_vars

\* the scheduler, one call at a time
NextSchedule ==
    \/ CreateCandidateRequest
    \/ ScheduleRequest
    \/ RescheduleRequest
    \/ UpdateInterviewRequest
    \/ InterviewOutcomeRequest

SpecSchedule == Init /\ [][NextSchedule]_vars

\* two scheduling requests in flight at once, all on one calendar day
SameDayTimes == {t \in Times : t >= MinutesPerDay}

BeginScheduleRequest ==
    /\ Serve
    /\ \E p \in Procs, st \in StageIdSpace, u \in Interviewers, t \in SameDayTimes,
          d \in Durations : BeginSchedule(p, st, u, t, d)

NextConcurrent ==
    \/ CreateCandidateRequest
    \/ BeginScheduleRequest
    \/ \E p \in Procs : SelectExisting(p)
    \/ \E p \in Procs : LookupStage(p)
    \/ \E p \in Procs : InsertInterview(p)
    \/ \E p \in Procs : UpdateStageScheduled(p)
    \/ \E p \in Procs : NotifyInterviewer(p)
    \/ \E p \in Procs : CommitSchedule(p)

SpecConcurrent == Init /\ [][NextConcurrent]_vars

HireRequest ==
    /\ Serve
    /\ \E c \in CandidateIdSpace, ws \in Workspaces : hire(c, ws)

DismissRequest ==
    /\ Serve
    /\ \E c \in CandidateIdSpace, ws \in Workspaces : dismiss(c, ws)

MoveToDocumentationRequest ==
    /\ Serve
    /\ \E c \in CandidateIdSpace, ws \in Workspaces : moveToDocumentation(c, ws)

CompleteDocumentationRequest ==
    /\ Serve
    /\ \E c \in CandidateIdSpace, ws \in Workspaces : completeDocumentation(c, ws)

EditCandidateRequest ==
    /\ Serve
    /\ \E c \in CandidateIdSpace, ws \in Workspaces, updates \in CandidateEdits :
          editCandidate(c, ws, updates)

\* the candidate's status under outcomes and the status routes
NextLifecycle ==
    \/ CreateCandidateRequest
    \/ StageOutcomeRequest
    \/ HireRequest
    \/ DismissRequest
    \/ MoveToDocumentationRequest
    \/ CompleteDocumentationRequest

SpecLifecycle == Init /\ [][NextLifecycle]_vars

\* the same with the candidate form
NextCandidateEdit ==
    \/ NextLifecycle
    \/ EditCandidateRequest

SpecCandidateEdit == Init /\ [][NextCandidateEdit]_vars

\* the workspaces requests come from; candidates live in Workspaces
CallerWorkspaces == Workspaces \cup {2}

\* req.workspaceId is handed to DatabaseStorage.updateInterviewStage;
\* InterviewsRepository.updateInterviewStage has no such parameter
PutInterviewStageRequest ==
    /\ Serve
    /\ \E id \in StageIdSpace, updates \in StageRouteBodies,
          ws \in IF binding = "DatabaseStorage" THEN CallerWorkspaces ELSE {Null} :
          putInterviewStage(binding, id, updates, ws)

\* stage outcomes through the route and through the storage layer
NextStageRoute ==
    \/ CreateCandidateRequest
    \/ BookRequest
    \/ PutInterviewStageRequest
    \/ StageOutcomeRequest

SpecStageRoute == Init /\ [][NextStageRoute]_vars

FailingScheduleRequest ==
    /\ Serve
    /\ \E s \in StageIdSpace, failAt \in ScheduleFailurePoints :
          failingScheduleInterview(binding, s, 1, BaseTime, DefaultDuration, failAt)

FailingNotifyOutcomeRequest ==
    /\ Serve
    /\ \E id \in StageIdSpace, partial \in StageUpdates :
          updateInterviewStageNotifyFails(binding, id, partial, Null)

\* bookings and stage outcomes whose later statements can fail
NextFailure ==
    \/ CreateCandidateRequest
    \/ BookRequest
    \/ FailingScheduleRequest
    \/ StageOutcomeRequest
    \/ FailingNotifyOutcomeRequest

SpecFailure == Init /\ [][NextFailure]_vars

\* stage outcomes recorded through the route, on booked stages
NextStageRequests ==
    \/ CreateCandidateRequest
    \/ BookRequest
    \/ PutInterviewStageRequest
    \/ InterviewOutcomeRequest

SpecStageRequests == Init /\ [][NextStageRequests]_vars

\* bookings that are made and moved
NextReschedule ==
    \/ CreateCandidateRequest
    \/ ScheduleRequest
    \/ RescheduleRequest

SpecReschedule == Init /\ [][NextReschedule]_vars

Next ==
    \/ NextReschedule
    \/ NextStageRequests
    \/ NextFailure
    \/ NextStageRoute
    \/ NextLifecycle
    \/ NextCandidateEdit
    \/ NextPipeline
    \/ NextChain
    \/ NextSync
    \/ NextSyncFailure
    \/ NextSchedule
    \/ NextConcurrent

\* ------------------------------------------------------------------ claims
\* an interview that occupies its interviewer: not cancelled, not tombstoned
Occupies(iv) == iv.deletedAt = Null /\ iv.status # "cancelled"

\* the half-open windows [scheduledAt, scheduledAt + duration) of a and b intersect
WindowsOverlap(a, b) == a.scheduledAt < EndOf(b) /\ b.scheduledAt < EndOf(a)

\* C1: in every state reachable by scheduleInterview, rescheduleInterview,
\* updateInterview and recordInterviewOutcome calls, no two non-cancelled,
\* non-tombstoned interviews of one interviewer have overlapping windows.
C1_NoDoubleBooking ==
    \A a, b \in interviews :
        (a.id # b.id /\ a.interviewerId = b.interviewerId /\ Occupies(a) /\ Occupies(b))
            => ~WindowsOverlap(a, b)

\* the windows requested by two calls intersect
RequestsOverlap(a, b) ==
    a.scheduledAt < b.scheduledAt + b.duration /\ b.scheduledAt < a.scheduledAt + a.duration

\* C2: of two concurrent scheduleInterview calls for the same interviewer with
\* overlapping windows at most one inserts an interview, whatever the
\* interleaving of their statements and also when the interviewer has no
\* booking on that day before either call starts.
C2_ConcurrentCallsSerialized ==
    \A p, q \in Procs :
        (/\ p # q
         /\ procs[p].pc = "done" /\ procs[q].pc = "done"
         /\ procs[p].interviewerId = procs[q].interviewerId
         /\ RequestsOverlap(procs[p], procs[q]))
        => ~(procs[p].result = "ok" /\ procs[q].result = "ok")

\* C3: a scheduleInterview call made while a committed booking of the same
\* interviewer overlaps the requested window ends in a conflict error, whatever
\* the two windows are (also when the first starts on the previous day).
C3_OverlapIsRefused ==
    [][(/\ last'.op = "scheduleInterview"
        /\ requests' = requests + 1
        /\ \E iv \in interviews :
              /\ iv.interviewerId = last'.interviewerId
              /\ iv.status = "scheduled"
              /\ iv.deletedAt = Null
              /\ Overlaps(last'.scheduledAt, last'.scheduledAt + last'.duration, iv))
       => last'.result = "conflict"]_vars

StageRow(id) == CHOOSE s \in stages : s.id = id
CandidateRow(id) == CHOOSE c \in candidates : c.id = id
LiveStages(candidateId) == {s \in stages : s.candidateId = candidateId /\ s.deletedAt = Null}

\* the stage is live and no live stage of its candidate has a higher index
IsLastLiveStage(st) ==
    /\ st.deletedAt = Null
    /\ \A o \in LiveStages(st.candidateId) : o.stageIndex <= st.stageIndex

\* the stage is live and a live stage of its candidate has a higher index
IsNonLastLiveStage(st) ==
    /\ st.deletedAt = Null
    /\ \E o \in LiveStages(st.candidateId) : o.stageIndex > st.stageIndex

\* the last request marked an existing stage with the given status
MarkedStage(l, status) ==
    /\ l.op = "updateInterviewStage"
    /\ l.status = status
    /\ l.result # "not_found"

\* C4: marking the last live stage of a chain passed puts the candidate into
\* documentation; a tombstoned stage at index stageIndex + 1 does not prevent it.
C4_LastStagePassedGivesDocumentation ==
    (MarkedStage(last, "passed") /\ IsLastLiveStage(StageRow(last.id)))
        => CandidateRow(StageRow(last.id).candidateId).status = "documentation"

\* C5: marking a non-last stage passed sets currentStageIndex to stageIndex + 1,
\* which is one more than its value before the call, and leaves the candidate
\* in status active.
C5_NonLastStagePassedAdvancesByOne ==
    [][(/\ requests' = requests + 1
        /\ MarkedStage(last', "passed")
        /\ IsNonLastLiveStage(CHOOSE s \in stages' : s.id = last'.id))
       => LET st == CHOOSE s \in stages' : s.id = last'.id
              before == CandidateRow(st.candidateId)
              after == CHOOSE c \in candidates' : c.id = st.candidateId
          IN /\ after.currentStageIndex = st.stageIndex + 1
             /\ after.currentStageIndex = before.currentStageIndex + 1
             /\ after.status = "active"]_vars

\* C6: marking a stage failed sets the candidate's status to rejected,
\* rejectionStage to the stage's numeric stageIndex and rejectionReason to the
\* comments (the generic reason only when the comments are empty).
C6_FailedStageRejectsCandidate ==
    MarkedStage(last, "failed")
        => LET st == StageRow(last.id)
               c == CandidateRow(st.candidateId)
           IN /\ c.status = "rejected"
              /\ c.rejectionStage = st.stageIndex
              /\ c.rejectionReason =
                    IF last.comments # "" THEN last.comments ELSE GenericRejectionReason

\* the last step was a syncInterviewStages call that ended with the given result
Synced(l, result) == l.op = "syncInterviewStages" /\ l.result = result

\* C7: a resync whose list omits a live stage tombstones that stage and every
\* interview bound to it (the rows stay, with a deletion timestamp) and leaves
\* status and scheduledAt of every stage that stays in the list unchanged.
C7_OmittedStageIsTombstoned ==
    [][(requests' = requests + 1 /\ Synced(last', "ok"))
       => \A s \in LiveStages(last'.candidateId) :
             IF s.id \notin NewStageIds(last'.list)
             THEN /\ \E t \in stages' : t.id = s.id /\ t.deletedAt # Null
                  /\ \A iv \in interviews : iv.stageId = s.id =>
                        \E jv \in interviews' : jv.id = iv.id /\ jv.deletedAt # Null
             ELSE \E t \in stages' : /\ t.id = s.id
                                     /\ t.status = s.status
                                     /\ t.scheduledAt = s.scheduledAt]_vars

\* the list names every live stage of the candidate exactly once and nothing else
IsReorderOf(list, live) ==
    /\ Len(list) = Cardinality(live)
    /\ {list[i].id : i \in 1..Len(list)} = {s.id : s \in live}

\* C8: a resync with a reordered list of the existing stage ids sets each
\* stage's stageIndex to its position in the list and changes no stage's
\* status, scheduledAt, completedAt, comments or rating.
C8_ReorderKeepsProgress ==
    [][(/\ requests' = requests + 1
        /\ Synced(last', "ok")
        /\ IsReorderOf(last'.list, LiveStages(last'.candidateId)))
       => /\ \A i \in 1..Len(last'.list) :
                \E t \in stages' : t.id = last'.list[i].id /\ t.stageIndex = i - 1
          /\ {t.id : t \in stages'} = {s.id : s \in stages}
          /\ \A s \in stages : \E t \in stages' :
                /\ t.id = s.id
                /\ t.status = s.status
                /\ t.scheduledAt = s.scheduledAt
                /\ t.completedAt = s.completedAt
                /\ t.comments = s.comments
                /\ t.rating = s.rating]_vars

\* a resync has just swapped the two stages of a chain one of which is passed
\* and one of which is scheduled
C8_Witness ==
    /\ Synced(last, "ok")
    /\ Len(last.list) = 2
    /\ last.list[1].id = 2 /\ last.list[2].id = 1
    /\ IsReorderOf(last.list, LiveStages(last.candidateId))
    /\ \E s \in stages : s.id = 2 /\ s.stageIndex = 0
    /\ \E s \in stages : s.id = 1 /\ s.stageIndex = 1
    /\ \E s \in stages : s.status = "passed" /\ s.comments = "ok"
    /\ \E s \in stages : s.status = "in_progress" /\ s.scheduledAt # Null

\* C9: in every state reachable by createCandidate and syncStageChain calls the
\* stageIndex values of a candidate's live stages are exactly 0..n-1.
C9_LiveIndicesContiguous ==
    \A c \in candidates :
        /\ {s.stageIndex : s \in LiveStages(c.id)} = 0..(Cardinality(LiveStages(c.id)) - 1)
        /\ \A s, t \in LiveStages(c.id) : s.stageIndex = t.stageIndex => s.id = t.id

\* C10: when a statement of a resync fails, the stages and interviews are left
\* exactly as they were before the call.
C10_FailedSyncChangesNothing ==
    [][(requests' = requests + 1 /\ Synced(last', "db_error"))
       => (stages' = stages /\ interviews' = interviews)]_vars

TerminalStageStatuses == {"passed", "failed"}

\* C11: once a live stage is passed or failed, no scheduleInterview,
\* updateInterviewStage or syncInterviewStages call changes its status as long
\* as the stage is not removed or tombstoned.
C11_TerminalStageStatusIsKept ==
    [][\A s \in stages :
          (s.status \in TerminalStageStatuses /\ s.deletedAt = Null)
             => \A t \in stages' :
                   (t.id = s.id /\ t.deletedAt = Null) => t.status = s.status]_vars


\* the edges of the candidate status machine
CandidateStatusEdges ==
    {<<"active", "documentation">>, <<"documentation", "hired">>,
     <<"active", "rejected">>, <<"active", "dismissed">>, <<"hired", "dismissed">>}

\* C12: every change of a candidate's status made by a stage outcome, hire,
\* dismiss, move-to-documentation or complete-documentation call follows an
\* edge of the status machine: a rejected candidate never reaches documentation
\* or hired, and hired is entered from documentation only.
C12_CandidateStatusFollowsEdges ==
    [][\A c \in candidates : \A d \in candidates' :
          (d.id = c.id /\ d.status # c.status)
             => <<c.status, d.status>> \in CandidateStatusEdges]_vars

\* C20: rejectionStage and rejectionReason are set only on a rejected candidate.
C20_RejectionFieldsOnlyWhenRejected ==
    \A c \in candidates :
        (c.rejectionStage # Null \/ c.rejectionReason # "") => c.status = "rejected"


\* C13: an updateInterviewStage call on an id whose stage does not exist or is
\* tombstoned ends with a not-found error and changes no stage, no candidate
\* and no notification.
C13_MissingStageIsNotFound ==
    [][(/\ requests' = requests + 1
        /\ last'.op = "updateInterviewStage"
        /\ ~(\E s \in stages : s.id = last'.id /\ s.deletedAt = Null))
       => /\ last'.result = "not_found"
          /\ stages' = stages
          /\ candidates' = candidates
          /\ notifications' = notifications]_vars


\* the last step asked to complete a stage and gave no feedback text
CompletedWithoutComments(l) ==
    /\ l.op \in {"putInterviewStage", "updateInterviewStage"}
    /\ l.status \in TerminalStageStatuses
    /\ l.comments \in BlankComments

\* C14: completing a stage with empty or whitespace-only comments ends in a
\* validation error and changes nothing, at the route and in the storage
\* operation itself.
C14_CompletionNeedsComments ==
    [][(/\ requests' = requests + 1
        /\ CompletedWithoutComments(last')
        /\ \E s \in stages : s.id = last'.id)
       => /\ last'.result = "validation_error"
          /\ stages' = stages
          /\ candidates' = candidates
          /\ interviews' = interviews
          /\ notifications' = notifications]_vars

\* the stage exists and its candidate is not in the workspace
InOtherWorkspace(id, ws) ==
    \E s \in stages : /\ s.id = id
                      /\ \A c \in candidates : c.id = s.candidateId => c.workspaceId # ws

\* C19: an updateInterviewStage call that is given a workspace id and names a
\* stage whose candidate is in another workspace fails and changes no stage,
\* candidate, interview or notification.
C19_OtherWorkspaceStageUntouched ==
    [][(/\ requests' = requests + 1
        /\ last'.op = "updateInterviewStage"
        /\ last'.ws # Null
        /\ InOtherWorkspace(last'.id, last'.ws))
       => /\ last'.result = "not_found"
          /\ stages' = stages
          /\ candidates' = candidates
          /\ interviews' = interviews
          /\ notifications' = notifications]_vars

\* a request from workspace 2 has just been refused on a booked stage of a
\* candidate of workspace 1
C19_Witness ==
    /\ last.op = "updateInterviewStage"
    /\ last.ws = 2
    /\ last.result = "not_found"
    /\ InOtherWorkspace(last.id, last.ws)
    /\ \E iv \in interviews : iv.stageId = last.id /\ iv.status = "scheduled"
    /\ \E s \in stages : s.id = last.id /\ s.status = "in_progress"


\* the list names one live stage of the candidate at two positions
HasDuplicateIds(list, candidateId) ==
    \E i, j \in 1..Len(list) :
        /\ i # j
        /\ list[i].id = list[j].id
        /\ \E s \in LiveStages(candidateId) : s.id = list[i].id

\* C15: a syncInterviewStages call whose list names the same stage id at two
\* positions ends in a validation error and changes no stage and no interview.
C15_DuplicatePositionsRejected ==
    [][(/\ requests' = requests + 1
        /\ last'.op = "syncInterviewStages"
        /\ HasDuplicateIds(last'.list, last'.candidateId))
       => /\ last'.result = "validation_error"
          /\ stages' = stages
          /\ interviews' = interviews]_vars


\* the last step was a call whose statement failAt threw
FailedAt(l, op, points) ==
    l.op = op /\ "failAt" \in DOMAIN l /\ l.failAt \in points

\* C16: a scheduleInterview call that fails after its interview insert leaves
\* no interview row behind and the stage's status and scheduledAt as they were.
C16_FailedScheduleRollsBack ==
    [][(requests' = requests + 1
        /\ FailedAt(last', "scheduleInterview", ScheduleFailurePoints))
       => /\ interviews' = interviews
          /\ \A s \in stages : \E t \in stages' :
                t.id = s.id /\ t.status = s.status /\ t.scheduledAt = s.scheduledAt]_vars

\* C17: a call whose notification insert fails still succeeds and keeps its
\* effects: scheduleInterview its interview and the stage in progress,
\* updateInterviewStage the passed stage and the advanced candidate.
C17_NotifyFailureDoesNotFailCall ==
    [][(/\ requests' = requests + 1
        /\ \/ FailedAt(last', "scheduleInterview", {"notify"})
           \/ FailedAt(last', "updateInterviewStage", {"notify"}))
       => /\ last'.result = "ok"
          /\ last'.op = "scheduleInterview" =>
                /\ \E iv \in interviews' : iv.id = last'.interviewId
                /\ \E t \in stages' : t.id = last'.stageId /\ t.status = "in_progress"
          /\ last'.op = "updateInterviewStage" =>
                \E t \in stages' :
                   /\ t.id = last'.id /\ t.status = "passed"
                   /\ \E c \in candidates' :
                         c.id = t.candidateId /\ c.currentStageIndex = t.stageIndex + 1]_vars


\* C18: an updateInterviewStage call with an outcome for a stage that is
\* already passed or failed is refused or does nothing: the stage row, the
\* candidate's status, currentStageIndex, rejectionStage and rejectionReason
\* and the notifications stay as they were.
C18_ResubmittedOutcomeChangesNothing ==
    [][(/\ requests' = requests + 1
        /\ last'.op = "updateInterviewStage"
        /\ last'.status \in TerminalStageStatuses
        /\ \E s \in stages : s.id = last'.id /\ s.status \in TerminalStageStatuses)
       => /\ stages' = stages
          /\ candidates' = candidates
          /\ notifications' = notifications]_vars


\* the last step was a scheduleInterview call that ended with the given result
Scheduled(l, result) == l.op = "scheduleInterview" /\ l.result = result

\* the window [start, start + duration) meets the window of iv, an interview
\* without a duration taking 30 minutes
MeetsWindow(start, duration, iv) ==
    /\ start < iv.scheduledAt + (IF iv.duration = Null THEN 30 ELSE iv.duration)
    /\ start + duration > iv.scheduledAt

\* C21: the answer of the schedule request to a conflict carries the start time
\* of an interview that overlaps the requested window.
C21_ConflictTimeReachesCaller ==
    Scheduled(last, "conflict")
        => /\ "conflictTime" \in DOMAIN ScheduleResponse(last)
           /\ \E iv \in interviews :
                 /\ iv.scheduledAt = ScheduleResponse(last).conflictTime
                 /\ iv.interviewerId = last.interviewerId
                 /\ MeetsWindow(last.scheduledAt, last.duration, iv)


\* C22: a scheduleInterview call that finds a conflict writes nothing: no
\* interview row, no change of any stage, no notification.
C22_ConflictWritesNothing ==
    [][(requests' = requests + 1 /\ Scheduled(last', "conflict"))
       => /\ interviews' = interviews
          /\ stages' = stages
          /\ notifications' = notifications]_vars

\* a booking has just been refused for a stage that is still pending
C22_Witness ==
    /\ Scheduled(last, "conflict")
    /\ \E iv \in interviews : iv.scheduledAt = last.conflictTime
    /\ \E s \in stages : s.id = last.stageId /\ s.status \in {"pending", "waiting"}


\* C23: a successful scheduleInterview call inserts exactly one interview, with
\* status scheduled and the candidate of the stage, sets that stage to
\* in_progress with the requested scheduledAt, creates one notification for
\* the interviewer and changes no other stage or interview.
C23_SuccessfulScheduleEffects ==
    [][(requests' = requests + 1 /\ Scheduled(last', "ok"))
       => /\ interviews \subseteq interviews'
          /\ \E n \in interviews' :
                /\ interviews' \ interviews = {n}
                /\ n.id = last'.interviewId
                /\ n.status = "scheduled"
                /\ n.stageId = last'.stageId
                /\ n.interviewerId = last'.interviewerId
                /\ n.scheduledAt = last'.scheduledAt
                /\ n.duration = last'.duration
                /\ \E s \in stages : s.id = last'.stageId /\ s.candidateId = n.candidateId
          /\ \A s \in stages :
                IF s.id = last'.stageId
                THEN [s EXCEPT !.status = "in_progress",
                               !.scheduledAt = last'.scheduledAt] \in stages'
                ELSE s \in stages'
          /\ Cardinality(stages') = Cardinality(stages)
          /\ \E row \in BagToSet(notifications') :
                /\ row.userId = last'.interviewerId
                /\ row.relatedEntityId = last'.interviewId
                /\ notifications' = notifications (+) SetToBag({row})]_vars

\* a second interview has just been booked while the candidate has another
\* stage and the interviewer another interview
C23_Witness ==
    /\ Scheduled(last, "ok")
    /\ \E iv \in interviews : iv.id # last.interviewId
    /\ \E s \in stages : s.id # last.stageId
    /\ \E s \in stages : s.id = last.stageId /\ s.status = "in_progress"


\* the interviews the conflict query of the call l reads: those of the
\* interviewer, in status scheduled, not tombstoned, on the day of l.scheduledAt
SameDayBookings(l) ==
    {iv \in interviews :
        /\ iv.interviewerId = l.interviewerId
        /\ iv.status = "scheduled"
        /\ iv.deletedAt = Null
        /\ iv.scheduledAt \div MinutesPerDay = l.scheduledAt \div MinutesPerDay}

\* C24: a scheduleInterview call is refused exactly when its half-open window
\* meets the window of a booking of that day (a null duration counting as 30
\* minutes): a booking that touches an existing one at either end is accepted.
C24_HalfOpenOverlapTest ==
    [][(/\ requests' = requests + 1
        /\ last'.op = "scheduleInterview"
        /\ last'.result \in {"ok", "conflict"}
        /\ \A iv \in interviews : iv.interviewerId = last'.interviewerId => iv.deletedAt = Null)
       => (last'.result = "conflict"
             <=> \E iv \in SameDayBookings(last') :
                    MeetsWindow(last'.scheduledAt, last'.duration, iv))]_vars

\* a booking has just been accepted that starts exactly when another booking
\* of the interviewer ends
C24_Witness ==
    /\ Scheduled(last, "ok")
    /\ \E iv \in interviews :
          /\ iv.id # last.interviewId
          /\ iv.interviewerId = last.interviewerId
          /\ iv.status = "scheduled"
          /\ iv.duration # Null
          /\ iv.scheduledAt + iv.duration = last.scheduledAt


\* C25: a scheduleInterview call is refused when a non-cancelled, non-tombstoned
\* interview of the interviewer on the same day overlaps its window, whatever
\* that interview's status (scheduled, completed, rescheduled), and the
\* interview a refusal names is never a cancelled or tombstoned one.
C25_ConflictQueryCoversNonCancelled ==
    [][(requests' = requests + 1 /\ last'.op = "scheduleInterview")
       => /\ (\E iv \in interviews :
                 /\ iv.interviewerId = last'.interviewerId
                 /\ Occupies(iv)
                 /\ iv.scheduledAt \div MinutesPerDay = last'.scheduledAt \div MinutesPerDay
                 /\ MeetsWindow(last'.scheduledAt, last'.duration, iv))
                => last'.result = "conflict"
          /\ last'.result = "conflict"
                => \E iv \in interviews :
                      /\ iv.scheduledAt = last'.conflictTime
                      /\ iv.interviewerId = last'.interviewerId
                      /\ Occupies(iv)]_vars


C27_CurrentStageIndexInRange ==
    [][/\ \A c \in candidates' :
             /\ c.currentStageIndex >= 0
             /\ c.currentStageIndex <=
                   Cardinality({s \in stages' : s.candidateId = c.id /\ s.deletedAt = Null})
       /\ \A c \in candidates : \A d \in candidates' :
             d.id = c.id => d.currentStageIndex >= c.currentStageIndex]_vars

\* C28: when a step puts a candidate into documentation, every live stage of
\* the candidate is passed.
C28_DocumentationMeansAllPassed ==
    [][\A d \in candidates' :
          (/\ d.status = "documentation"
           /\ \E c \in candidates : c.id = d.id /\ c.status # "documentation")
             => \A s \in stages' :
                   (s.candidateId = d.id /\ s.deletedAt = Null) => s.status = "passed"]_vars


\* C29: every live interview is bound to a live stage and carries that stage's
\* candidateId.
C29_LiveInterviewOnLiveStage ==
    \A iv \in interviews :
        iv.deletedAt = Null
           => \E s \in stages : /\ s.id = iv.stageId
                                /\ s.deletedAt = Null
                                /\ s.candidateId = iv.candidateId

\* the interview most recently scheduled for the stage
LatestInterview(stageId) ==
    CHOOSE iv \in interviews :
        /\ iv.stageId = stageId
        /\ \A jv \in interviews : jv.stageId = stageId => jv.id <= iv.id

\* C30: a stage that has an interview shows the scheduledAt of the interview
\* most recently scheduled for it.
C30_StageShowsInterviewTime ==
    \A s \in stages :
        (\E iv \in interviews : iv.stageId = s.id)
           => s.scheduledAt = LatestInterview(s.id).scheduledAt


Spec == Init /\ [][Next]_vars
====
